---- MODULE Spec2Model ----
(***************************************************************************)
(* Model of the query router and multi-worker dispatch graph of            *)
(* agent_graph.py, driven by the /chat and /upload endpoints of main.py.   *)
(*                                                                         *)
(* Text is modelled as a sequence of one-character strings, so that        *)
(* strip(), upper(), lower(), slicing and the substring test `in` are      *)
(* computed character by character as Python computes them.                *)
(***************************************************************************)
EXTENDS Integers, Sequences, FiniteSets, TLC

VARIABLES sql_agent_executor, vector_store, meetings, waiting, state, pc,
          trace, calls

vars == <<sql_agent_executor, vector_store, meetings, waiting, state, pc,
          trace, calls>>

----------------------------------------------------------------------------
(* Python str operations                                                   *)

None == "None"

UpperCase == <<"A","B","C","D","E","F","G","H","I","J","K","L","M","N","O","P","Q","R","S","T","U","V","W","X","Y","Z">>

LowerCase == <<"a","b","c","d","e","f","g","h","i","j","k","l","m","n","o","p","q","r","s","t","u","v","w","x","y","z">>

Whitespace == {" ", "\n", "\t"}

\* the upper-case form of each lower-case letter, and the converse
UpperOf ==
  [c \in {LowerCase[k] : k \in 1..26} |->
     UpperCase[CHOOSE k \in 1..26 : LowerCase[k] = c]]

LowerOf ==
  [c \in {UpperCase[k] : k \in 1..26} |->
     LowerCase[CHOOSE k \in 1..26 : UpperCase[k] = c]]

upperChar(c) == IF c \in DOMAIN UpperOf THEN UpperOf[c] ELSE c

lowerChar(c) == IF c \in DOMAIN LowerOf THEN LowerOf[c] ELSE c

upper(s) == [i \in 1..Len(s) |-> upperChar(s[i])]

lower(s) == [i \in 1..Len(s) |-> lowerChar(s[i])]

\* sub in s
contains(s, sub) ==
  \E i \in 0..(Len(s) - Len(sub)) : SubSeq(s, i + 1, i + Len(sub)) = sub

\* s.strip()
strip(s) ==
  LET keep == {i \in 1..Len(s) : s[i] \notin Whitespace}
  IN  IF keep = {} THEN <<>>
      ELSE SubSeq(s, CHOOSE i \in keep : \A j \in keep : i <= j,
                     CHOOSE i \in keep : \A j \in keep : j <= i)

\* s[:n]
prefix(s, n) == SubSeq(s, 1, IF Len(s) < n THEN Len(s) ELSE n)

RECURSIVE join(_, _)
\* sep.join(parts)
join(sep, parts) ==
  IF Len(parts) = 0 THEN <<>>
  ELSE IF Len(parts) = 1 THEN parts[1]
  ELSE parts[1] \o sep \o join(sep, Tail(parts))

----------------------------------------------------------------------------
(* Outcomes of calls to the external collaborators, and Python exceptions  *)

\* the call returned val
Ok(v) == [kind |-> "ok", type |-> "", val |-> v]

\* the call raised an exception of class type whose str() is m
Exc(t, m) == [kind |-> "exc", type |-> t, val |-> m]

\* the call returned None (or a mapping without the key that is read)
NoneResult == [kind |-> "none", type |-> "", val |-> <<>>]

ExceptionTypes == {"Exception", "ValueError", "TimeoutError"}

\* `except cls` catches e: ValueError and TimeoutError derive from Exception
isinstance(e, cls) == e.kind = "exc" /\ (cls = "Exception" \/ e.type = cls)

\* one call to the collaborator `to`, with its outcome
Call(to, out) == [to |-> to, out |-> out]

NoCalls == <<>>

\* a node returned the partial state update u after the collaborator calls c
NodeReturn(u, c) == [raised |-> FALSE, update |-> u, calls |-> c]

\* a node let an exception escape after the collaborator calls c
NodeRaise(c) == [raised |-> TRUE, update |-> <<>>, calls |-> c]

----------------------------------------------------------------------------
(* tool.py                                                                 *)

MSG_NO_WEATHER == <<"C","o","u","l","d"," ","n","o","t"," ","f","e","t","c","h"," ","w","e","a","t","h","e","r"," ","d","a","t","a",".">>

\* the degree sign of the temperature unit, one character
Degree == "deg"

HTTP_OK == 200

\* get_weather(city): http is the outcome of requests.get and of decoding
\* the body: raised, or a status with the description and temperature read
get_weather(city, http) ==
  IF http.kind = "exc" THEN Exc(http.type, http.val)
  ELSE IF http.status = HTTP_OK
    THEN Ok(<<"W","e","a","t","h","e","r"," ","i","n"," ">> \o city \o <<":"," ">> \o http.desc \o <<","," ","T","e","m","p",":"," ">>
            \o http.temp \o <<Degree, "C">>)
    ELSE Ok(MSG_NO_WEATHER)

----------------------------------------------------------------------------
(* rag.py                                                                  *)

TOP_K == 3

\* vector_store.similarity_search(query, k=3): the k chunks nearest to the
\* query, fewer when the store holds fewer
similarity_search(store) == prefix(store.chunks, TOP_K)

\* vector_store = None, before any document was ingested
NoStore == [built |-> FALSE, chunks |-> <<>>]

\* Chroma.from_documents(documents=splits, ...)
Chroma(splits) == [built |-> TRUE, chunks |-> splits]

\* ingest_document(file_path): load is the outcome of loading and splitting
\* the file; the store is replaced, not merged; a failure leaves it as it was
ingest_document(store, load) ==
  IF load.kind = "exc" THEN store ELSE Chroma(load.val)

\* query_vector_db(query): search is the outcome of similarity_search
query_vector_db(store, search) ==
  IF ~store.built THEN NoneResult
  ELSE IF search.kind = "exc" THEN search
  ELSE Ok(join(<<"\n">>, search.val))

----------------------------------------------------------------------------
(* database.py and meeting.py: the stored meeting records                  *)

\* largest number of rows of the meetings table
MaxMeetings == 1

\* the primary keys a Meeting row can have
MeetingIds == 1..MaxMeetings

\* create_meeting(title, start_time, ...): db.add and db.commit store a row
\* under the next free key (none is stored once the table is full)
create_meeting(ms) ==
  IF MeetingIds \ ms = {} THEN ms
  ELSE ms \cup {CHOOSE id \in MeetingIds \ ms :
                  \A other \in MeetingIds \ ms : id <= other}

RECURSIVE stored_after(_, _)
\* the meetings table after the calls cs of a node: each create_meeting
\* call that returned has stored a row
stored_after(ms, cs) ==
  IF cs = <<>> THEN ms
  ELSE stored_after(IF Head(cs).to = "create_meeting"
                         /\ Head(cs).out.kind = "ok"
                      THEN create_meeting(ms) ELSE ms,
                    Tail(cs))

\* the contents the meetings table can have after the calls cs of a node:
\* the SQL agent built on the engine runs the statements the model writes,
\* so an invocation of it can leave any rows
tables_after(ms, cs) ==
  IF \E i \in 1..Len(cs) : cs[i].to = "sql"
    THEN SUBSET MeetingIds
    ELSE {stored_after(ms, cs)}

----------------------------------------------------------------------------
(* agent_graph.py: the nodes                                               *)

CAT_DB_QUERY == <<"D","B","_","Q","U","E","R","Y">>

\* router_node returning the category in the response field as well
router_node_writes_response(st, llmOut) ==
  LET response == IF isinstance(llmOut, "Exception")
                    THEN CAT_DB_QUERY
                    ELSE strip(llmOut.val)
  IN  NodeReturn([context |-> response, response |-> response],
                 <<Call("llm", llmOut)>>)

\* router_node falling back to DB_QUERY on an empty classification too
router_node_default_on_empty(st, llmOut) ==
  LET response == IF isinstance(llmOut, "Exception")
                       \/ strip(llmOut.val) = <<>>
                    THEN CAT_DB_QUERY
                    ELSE strip(llmOut.val)
  IN  NodeReturn([context |-> response, response |-> <<>>],
                 <<Call("llm", llmOut)>>)

\* router_node without its try/except: a failed classification propagates
router_node_propagates(st, llmOut) ==
  IF isinstance(llmOut, "Exception")
    THEN NodeRaise(<<Call("llm", llmOut)>>)
    ELSE NodeReturn([context |-> strip(llmOut.val), response |-> <<>>],
                    <<Call("llm", llmOut)>>)

\* router_node(state): llmOut is the outcome of the classification call
router_node(st, llmOut) ==
  LET response == IF isinstance(llmOut, "Exception")
                    THEN CAT_DB_QUERY
                    ELSE strip(llmOut.val)
  IN  NodeReturn([context |-> response, response |-> <<>>],
                 <<Call("llm", llmOut)>>)

\* weather_agent with the weather lookup outside its try block
weather_agent_uncaught(st, cityOut, http) ==
  LET weather == get_weather(strip(cityOut.val), http)
      c1 == <<Call("llm", cityOut)>>
      c2 == c1 \o <<Call("weather", weather)>>
  IN  IF isinstance(cityOut, "Exception")
        THEN NodeReturn([response |-> <<"W","e","a","t","h","e","r"," ","s","e","r","v","i","c","e"," ","u","n","a","v","a","i","l","a","b","l","e",":"," ">>
                                        \o cityOut.val], c1)
      ELSE IF isinstance(weather, "Exception") THEN NodeRaise(c2)
      ELSE NodeReturn([response |-> weather.val], c2)

\* weather_agent(state): cityOut is the outcome of the city extraction call,
\* http that of the weather lookup's request
weather_agent(st, cityOut, http) ==
  LET failed(e, c) ==
        NodeReturn([response |-> <<"W","e","a","t","h","e","r"," ","s","e","r","v","i","c","e"," ","u","n","a","v","a","i","l","a","b","l","e",":"," ">> \o e.val], c)
      weather == get_weather(strip(cityOut.val), http)
      c1 == <<Call("llm", cityOut)>>
      c2 == c1 \o <<Call("weather", weather)>>
  IN  IF isinstance(cityOut, "Exception") THEN failed(cityOut, c1)
      ELSE IF isinstance(weather, "Exception") THEN failed(weather, c2)
      ELSE NodeReturn([response |-> weather.val], c2)

\* doc_qa_agent asking the context check whatever the search returned
doc_qa_agent_always_checks(st, store, search, checkOut, ansOut, webOut) ==
  LET failed(e, c) ==
        NodeReturn([response |-> <<"D","o","c","u","m","e","n","t"," ","Q","A"," ","f","a","i","l","e","d",":"," ">> \o e.val], c)
      doc_result == query_vector_db(store, search)
      c1 == IF store.built THEN <<Call("vector", search)>> ELSE <<>>
      c2 == c1 \o <<Call("llm", checkOut)>>
      c3 == c2 \o <<Call("llm", ansOut)>>
      web(c) == IF isinstance(webOut, "Exception")
                  THEN failed(webOut, c \o <<Call("web", webOut)>>)
                  ELSE NodeReturn([response |-> webOut.val],
                                  c \o <<Call("web", webOut)>>)
  IN  IF isinstance(doc_result, "Exception") THEN failed(doc_result, c1)
      ELSE IF isinstance(checkOut, "Exception") THEN failed(checkOut, c2)
      ELSE IF contains(lower(checkOut.val), <<"y","e","s">>)
        THEN IF isinstance(ansOut, "Exception")
               THEN failed(ansOut, c3)
               ELSE NodeReturn([response |-> ansOut.val], c3)
        ELSE web(c2)

\* doc_qa_agent taking only the exact reply "yes" as a yes
doc_qa_agent_exact_yes(st, store, search, checkOut, ansOut, webOut) ==
  LET failed(e, c) ==
        NodeReturn([response |-> <<"D","o","c","u","m","e","n","t"," ","Q","A"," ","f","a","i","l","e","d",":"," ">> \o e.val], c)
      doc_result == query_vector_db(store, search)
      c1 == IF store.built THEN <<Call("vector", search)>> ELSE <<>>
      c2 == c1 \o <<Call("llm", checkOut)>>
      c3 == c2 \o <<Call("llm", ansOut)>>
      web(c) == IF isinstance(webOut, "Exception")
                  THEN failed(webOut, c \o <<Call("web", webOut)>>)
                  ELSE NodeReturn([response |-> webOut.val],
                                  c \o <<Call("web", webOut)>>)
  IN  IF isinstance(doc_result, "Exception") THEN failed(doc_result, c1)
      ELSE IF doc_result.kind = "ok" /\ doc_result.val # <<>>
        THEN IF isinstance(checkOut, "Exception") THEN failed(checkOut, c2)
             ELSE IF lower(checkOut.val) = <<"y","e","s">>
               THEN IF isinstance(ansOut, "Exception")
                      THEN failed(ansOut, c3)
                      ELSE NodeReturn([response |-> ansOut.val], c3)
               ELSE web(c2)
        ELSE web(c1)

\* doc_qa_agent falling back to the web search when the answer call fails
doc_qa_agent_web_after_answer(st, store, search, checkOut, ansOut, webOut) ==
  LET failed(e, c) ==
        NodeReturn([response |-> <<"D","o","c","u","m","e","n","t"," ","Q","A"," ","f","a","i","l","e","d",":"," ">> \o e.val], c)
      doc_result == query_vector_db(store, search)
      c1 == IF store.built THEN <<Call("vector", search)>> ELSE <<>>
      c2 == c1 \o <<Call("llm", checkOut)>>
      c3 == c2 \o <<Call("llm", ansOut)>>
      web(c) == IF isinstance(webOut, "Exception")
                  THEN failed(webOut, c \o <<Call("web", webOut)>>)
                  ELSE NodeReturn([response |-> webOut.val],
                                  c \o <<Call("web", webOut)>>)
  IN  IF isinstance(doc_result, "Exception") THEN failed(doc_result, c1)
      ELSE IF doc_result.kind = "ok" /\ doc_result.val # <<>>
        THEN IF isinstance(checkOut, "Exception") THEN failed(checkOut, c2)
             ELSE IF contains(lower(checkOut.val), <<"y","e","s">>)
               THEN IF isinstance(ansOut, "Exception")
                      THEN web(c3)
                      ELSE NodeReturn([response |-> ansOut.val], c3)
               ELSE web(c2)
        ELSE web(c1)

\* doc_qa_agent(state): search, checkOut, ansOut and webOut are the outcomes
\* of the similarity search, the context check, the answer call and the web
\* search
doc_qa_agent(st, store, search, checkOut, ansOut, webOut) ==
  LET failed(e, c) ==
        NodeReturn([response |-> <<"D","o","c","u","m","e","n","t"," ","Q","A"," ","f","a","i","l","e","d",":"," ">> \o e.val], c)
      doc_result == query_vector_db(store, search)
      c1 == IF store.built THEN <<Call("vector", search)>> ELSE <<>>
      c2 == c1 \o <<Call("llm", checkOut)>>
      c3 == c2 \o <<Call("llm", ansOut)>>
      web(c) == IF isinstance(webOut, "Exception")
                  THEN failed(webOut, c \o <<Call("web", webOut)>>)
                  ELSE NodeReturn([response |-> webOut.val],
                                  c \o <<Call("web", webOut)>>)
  IN  IF isinstance(doc_result, "Exception") THEN failed(doc_result, c1)
      ELSE IF doc_result.kind = "ok" /\ doc_result.val # <<>>
        THEN IF isinstance(checkOut, "Exception") THEN failed(checkOut, c2)
             ELSE IF contains(lower(checkOut.val), <<"y","e","s">>)
               THEN IF isinstance(ansOut, "Exception")
                      THEN failed(ansOut, c3)
                      ELSE NodeReturn([response |-> ansOut.val], c3)
               ELSE web(c2)
        ELSE web(c1)

\* scheduler_agent taking only the exact reply "yes" as a yes
scheduler_agent_exact_yes(st, cityOut, http, decisionOut) ==
  LET failed(e, c) ==
        NodeReturn([response |-> <<"S","c","h","e","d","u","l","i","n","g"," ","e","r","r","o","r",":"," ">> \o e.val], c)
      weather_res == get_weather(strip(cityOut.val), http)
      c1 == <<Call("llm", cityOut)>>
      c2 == c1 \o <<Call("weather", weather_res)>>
      c3 == c2 \o <<Call("llm", decisionOut)>>
  IN  IF isinstance(cityOut, "Exception") THEN failed(cityOut, c1)
      ELSE IF isinstance(weather_res, "Exception") THEN failed(weather_res, c2)
      ELSE IF isinstance(decisionOut, "Exception") THEN failed(decisionOut, c3)
      ELSE IF lower(decisionOut.val) = <<"y","e","s">>
        THEN NodeReturn([response |-> <<"G","o","o","d"," ","w","e","a","t","h","e","r"," ","(">> \o weather_res.val
                           \o <<")","."," ","M","e","e","t","i","n","g"," ","c","a","n"," ","b","e"," ","s","c","h","e","d","u","l","e","d","!">>], c3)
        ELSE NodeReturn([response |-> <<"B","a","d"," ","w","e","a","t","h","e","r"," ","(">> \o weather_res.val
                           \o <<")","."," ","M","e","e","t","i","n","g"," ","n","o","t"," ","r","e","c","o","m","m","e","n","d","e","d"," ","f","o","r"," ","o","u","t","d","o","o","r","s",".">>], c3)

\* scheduler_agent storing a meeting when the decision is a yes
scheduler_agent_creates_meeting(st, cityOut, http, decisionOut) ==
  LET failed(e, c) ==
        NodeReturn([response |-> <<"S","c","h","e","d","u","l","i","n","g"," ","e","r","r","o","r",":"," ">> \o e.val], c)
      weather_res == get_weather(strip(cityOut.val), http)
      c1 == <<Call("llm", cityOut)>>
      c2 == c1 \o <<Call("weather", weather_res)>>
      c3 == c2 \o <<Call("llm", decisionOut)>>
      c4 == c3 \o <<Call("create_meeting", Ok(<<"M","e","e","t","i","n","g"," ","c","r","e","a","t","e","d">>))>>
  IN  IF isinstance(cityOut, "Exception") THEN failed(cityOut, c1)
      ELSE IF isinstance(weather_res, "Exception") THEN failed(weather_res, c2)
      ELSE IF isinstance(decisionOut, "Exception") THEN failed(decisionOut, c3)
      ELSE IF contains(lower(decisionOut.val), <<"y","e","s">>)
        THEN NodeReturn([response |-> <<"G","o","o","d"," ","w","e","a","t","h","e","r"," ","(">> \o weather_res.val
                           \o <<")","."," ","M","e","e","t","i","n","g"," ","c","a","n"," ","b","e"," ","s","c","h","e","d","u","l","e","d","!">>], c4)
        ELSE NodeReturn([response |-> <<"B","a","d"," ","w","e","a","t","h","e","r"," ","(">> \o weather_res.val
                           \o <<")","."," ","M","e","e","t","i","n","g"," ","n","o","t"," ","r","e","c","o","m","m","e","n","d","e","d"," ","f","o","r"," ","o","u","t","d","o","o","r","s",".">>], c3)

\* scheduler_agent(state): cityOut, http and decisionOut are the outcomes of
\* the city extraction, the weather lookup's request and the decision call
scheduler_agent(st, cityOut, http, decisionOut) ==
  LET failed(e, c) ==
        NodeReturn([response |-> <<"S","c","h","e","d","u","l","i","n","g"," ","e","r","r","o","r",":"," ">> \o e.val], c)
      weather_res == get_weather(strip(cityOut.val), http)
      c1 == <<Call("llm", cityOut)>>
      c2 == c1 \o <<Call("weather", weather_res)>>
      c3 == c2 \o <<Call("llm", decisionOut)>>
  IN  IF isinstance(cityOut, "Exception") THEN failed(cityOut, c1)
      ELSE IF isinstance(weather_res, "Exception") THEN failed(weather_res, c2)
      ELSE IF isinstance(decisionOut, "Exception") THEN failed(decisionOut, c3)
      ELSE IF contains(lower(decisionOut.val), <<"y","e","s">>)
        THEN NodeReturn([response |-> <<"G","o","o","d"," ","w","e","a","t","h","e","r"," ","(">> \o weather_res.val
                           \o <<")","."," ","M","e","e","t","i","n","g"," ","c","a","n"," ","b","e"," ","s","c","h","e","d","u","l","e","d","!">>], c3)
        ELSE NodeReturn([response |-> <<"B","a","d"," ","w","e","a","t","h","e","r"," ","(">> \o weather_res.val
                           \o <<")","."," ","M","e","e","t","i","n","g"," ","n","o","t"," ","r","e","c","o","m","m","e","n","d","e","d"," ","f","o","r"," ","o","u","t","d","o","o","r","s",".">>], c3)

MSG_DB_UNAVAILABLE == <<"D","a","t","a","b","a","s","e"," ","s","e","r","v","i","c","e"," ","u","n","a","v","a","i","l","a","b","l","e","."," ","P","l","e","a","s","e"," ","t","r","y"," ","a","n","o","t","h","e","r"," ","q","u","e","r","y"," ","t","y","p","e",".">>

MSG_DB_INVALID == <<"P","l","e","a","s","e"," ","p","r","o","v","i","d","e"," ","a"," ","v","a","l","i","d"," ","q","u","e","r","y"," ","a","b","o","u","t"," ","m","e","e","t","i","n","g","s",".">>

MSG_DB_TIMEOUT == <<"D","a","t","a","b","a","s","e"," ","q","u","e","r","y"," ","t","i","m","e","d"," ","o","u","t","."," ","P","l","e","a","s","e"," ","t","r","y"," ","a"," ","s","i","m","p","l","e","r"," ","q","u","e","r","y",".">>

MSG_DB_NO_MEETINGS == <<"N","o"," ","m","e","e","t","i","n","g","s"," ","f","o","u","n","d"," ","m","a","t","c","h","i","n","g"," ","y","o","u","r"," ","q","u","e","r","y",".">>

MSG_DB_SYNTAX == <<"Q","u","e","r","y"," ","s","y","n","t","a","x"," ","e","r","r","o","r","."," ","T","r","y"," ","a","s","k","i","n","g",":"," ","'","L","i","s","t"," ","a","l","l"," ","m","e","e","t","i","n","g","s","'"," ","o","r"," ","'","S","h","o","w"," ","m","e","e","t","i","n","g","s"," ","t","o","m","o","r","r","o","w","'">>

MSG_DB_CONNECTION == <<"D","a","t","a","b","a","s","e"," ","c","o","n","n","e","c","t","i","o","n"," ","f","a","i","l","e","d","."," ","P","l","e","a","s","e"," ","t","r","y"," ","a","g","a","i","n"," ","l","a","t","e","r",".">>

MIN_QUERY_LEN == 3

ERR_TRUNC == 100

\* the validation with its length test off by one
db_invalid_query_off_by_one(query) ==
  query = <<>> \/ Len(query) < MIN_QUERY_LEN - 1

\* the test of "Validate query": not query or len(query) < 3
db_invalid_query(query) == query = <<>> \/ Len(query) < MIN_QUERY_LEN

\* the empty-output test without lower()
db_empty_output_case_sensitive(output) ==
  output = <<>> \/ output \in {<<"n","o","n","e">>, <<"n","o"," ","r","e","s","u","l","t","s">>, <<>>}

\* the test of "Format response":
\* not output or output.lower() in ['none', 'no results', '']
db_empty_output(output) ==
  output = <<>> \/ lower(output) \in {<<"n","o","n","e">>, <<"n","o"," ","r","e","s","u","l","t","s">>, <<>>}

\* the keyword test without lower-casing the query
any_word_in_case_sensitive(query, words) ==
  \E word \in words : contains(query, word)

\* any(word in query.lower() for word in words)
any_word_in(query, words) == \E word \in words : contains(lower(query), word)

\* db_query_agent, "Clean and format output": the output stripped, with a
\* heading chosen by the keywords of the query
db_format_response(query, output) ==
  LET formatted_response == strip(output)
  IN  IF any_word_in(query, {<<"l","i","s","t">>, <<"s","h","o","w">>, <<"a","l","l">>, <<"g","e","t">>})
        THEN <<"M","e","e","t","i","n","g","s"," ","f","o","u","n","d",":","\n">> \o formatted_response
      ELSE IF any_word_in(query, {<<"c","o","u","n","t">>, <<"h","o","w"," ","m","a","n","y">>})
        THEN <<"M","e","e","t","i","n","g"," ","c","o","u","n","t",":","\n">> \o formatted_response
      ELSE IF any_word_in(query, {<<"s","e","a","r","c","h">>, <<"f","i","n","d">>})
        THEN <<"S","e","a","r","c","h"," ","r","e","s","u","l","t","s",":","\n">> \o formatted_response
      ELSE formatted_response

\* the handlers with the "connection" test before the "syntax" test
db_error_response_connection_first(e) ==
  IF isinstance(e, "ValueError")
    THEN <<"I","n","v","a","l","i","d"," ","q","u","e","r","y"," ","f","o","r","m","a","t",":"," ">> \o e.val \o <<"."," ","P","l","e","a","s","e"," ","r","e","p","h","r","a","s","e"," ","y","o","u","r"," ","q","u","e","s","t","i","o","n",".">>
  ELSE LET error_msg == lower(e.val)
       IN  IF contains(error_msg, <<"c","o","n","n","e","c","t","i","o","n">>) THEN MSG_DB_CONNECTION
           ELSE IF contains(error_msg, <<"s","y","n","t","a","x">>) THEN MSG_DB_SYNTAX
           ELSE <<"Q","u","e","r","y"," ","p","r","o","c","e","s","s","i","n","g"," ","e","r","r","o","r","."," ","P","l","e","a","s","e"," ","r","e","p","h","r","a","s","e",":"," ">>
                  \o prefix(e.val, ERR_TRUNC)

\* db_query_agent, the handlers `except ValueError` and `except Exception`
db_error_response(e) ==
  IF isinstance(e, "ValueError")
    THEN <<"I","n","v","a","l","i","d"," ","q","u","e","r","y"," ","f","o","r","m","a","t",":"," ">> \o e.val \o <<"."," ","P","l","e","a","s","e"," ","r","e","p","h","r","a","s","e"," ","y","o","u","r"," ","q","u","e","s","t","i","o","n",".">>
  ELSE LET error_msg == lower(e.val)
       IN  IF contains(error_msg, <<"s","y","n","t","a","x">>) THEN MSG_DB_SYNTAX
           ELSE IF contains(error_msg, <<"c","o","n","n","e","c","t","i","o","n">>) THEN MSG_DB_CONNECTION
           ELSE <<"Q","u","e","r","y"," ","p","r","o","c","e","s","s","i","n","g"," ","e","r","r","o","r","."," ","P","l","e","a","s","e"," ","r","e","p","h","r","a","s","e",":"," ">>
                  \o prefix(e.val, ERR_TRUNC)

\* db_execute without the inner `except TimeoutError`
db_execute_unguarded(query, sqlOut) ==
  LET output == IF sqlOut.kind = "none" THEN <<>> ELSE sqlOut.val
  IN  IF isinstance(sqlOut, "Exception") THEN db_error_response(sqlOut)
      ELSE IF db_empty_output(output) THEN MSG_DB_NO_MEETINGS
      ELSE db_format_response(query, output)

\* db_query_agent once the query is validated: the guarded invocation, the
\* normalisation of its output and the handlers of its failures
db_execute(query, sqlOut) ==
  LET output == IF sqlOut.kind = "none" THEN <<>> ELSE sqlOut.val
  IN  IF isinstance(sqlOut, "TimeoutError") THEN MSG_DB_TIMEOUT
      ELSE IF isinstance(sqlOut, "Exception") THEN db_error_response(sqlOut)
      ELSE IF db_empty_output(output) THEN MSG_DB_NO_MEETINGS
      ELSE db_format_response(query, output)

\* db_query_agent without the test of sql_agent_executor
db_query_agent_no_precheck(st, executor, sqlOut) ==
  LET query == strip(st.query)
  IN  IF db_invalid_query(query)
        THEN NodeReturn([response |-> MSG_DB_INVALID], NoCalls)
      ELSE NodeReturn([response |-> db_execute(query, sqlOut)],
                      <<Call("sql", sqlOut)>>)

\* db_query_agent returning the trimmed query as part of its update
db_query_agent_writes_query(st, executor, sqlOut) ==
  LET query == strip(st.query)
  IN  IF executor = None
        THEN NodeReturn([response |-> MSG_DB_UNAVAILABLE, query |-> query],
                        NoCalls)
      ELSE IF db_invalid_query(query)
        THEN NodeReturn([response |-> MSG_DB_INVALID, query |-> query],
                        NoCalls)
      ELSE NodeReturn([response |-> db_execute(query, sqlOut),
                       query |-> query],
                      <<Call("sql", sqlOut)>>)

\* db_query_agent(state): executor is sql_agent_executor, sqlOut the outcome
\* of sql_agent_executor.invoke when it is called
db_query_agent(st, executor, sqlOut) ==
  LET query == strip(st.query)
  IN  IF executor = None
        THEN NodeReturn([response |-> MSG_DB_UNAVAILABLE], NoCalls)
      ELSE IF db_invalid_query(query)
        THEN NodeReturn([response |-> MSG_DB_INVALID], NoCalls)
      ELSE NodeReturn([response |-> db_execute(query, sqlOut)],
                      <<Call("sql", sqlOut)>>)

----------------------------------------------------------------------------
(* agent_graph.py: the graph                                               *)

Workers == {"weather_worker", "doc_worker", "scheduler_worker", "db_worker"}

\* route_logic without its final else: no worker for an unknown category
route_logic_nodefault(st) ==
  LET category == upper(st.context)
  IN  IF contains(category, <<"W","E","A","T","H","E","R">>) THEN "weather_worker"
      ELSE IF contains(category, <<"D","O","C">>) THEN "doc_worker"
      ELSE IF contains(category, <<"M","E","E","T","I","N","G">>) THEN "scheduler_worker"
      ELSE IF contains(category, <<"D","B","_","Q","U","E","R","Y">>) THEN "db_worker"
      ELSE "__end__"

\* route_logic with the MEETING test moved to the front of the chain
route_logic_meeting_first(st) ==
  LET category == upper(st.context)
  IN  IF contains(category, <<"M","E","E","T","I","N","G">>) THEN "scheduler_worker"
      ELSE IF contains(category, <<"W","E","A","T","H","E","R">>) THEN "weather_worker"
      ELSE IF contains(category, <<"D","O","C">>) THEN "doc_worker"
      ELSE "db_worker"

\* route_logic(state), the conditional edge leaving the router
route_logic(st) ==
  LET category == upper(IF "context" \in DOMAIN st THEN st.context
                                                   ELSE CAT_DB_QUERY)
  IN  IF contains(category, <<"W","E","A","T","H","E","R">>) THEN "weather_worker"
      ELSE IF contains(category, <<"D","O","C","_","Q","A">>) \/ contains(category, <<"D","O","C">>)
        THEN "doc_worker"
      ELSE IF contains(category, <<"M","E","E","T","I","N","G","_","S","C","H","E","D","U","L","E">>)
                \/ contains(category, <<"M","E","E","T","I","N","G">>)
        THEN "scheduler_worker"
      ELSE "db_worker"

ENTRY_POINT == "router"

END == "__end__"

\* the workflow with an edge from the scheduler worker on to the database
\* worker instead of END
next_node_chained(node, st) ==
  IF node = "router" THEN route_logic(st)
  ELSE IF node = "scheduler_worker" THEN "db_worker"
  ELSE END

\* the edges of the compiled workflow: the conditional edge after the
\* router, and the edge from each worker to END
next_node(node, st) ==
  IF node = "router" THEN route_logic(st) ELSE END

----------------------------------------------------------------------------
(* Inputs: the texts the caller and the collaborators may produce          *)

\* longest run of whitespace put around a text
MaxPad == 1

\* largest number of chunks an ingested document splits into
MaxChunks == 2

\* how far the longest error text exceeds the truncation length
MaxOver == 2

Repeat(c, n) == [i \in 1..n |-> c]

\* t between up to MaxPad blanks before it and as many newlines after it
Padded(t) ==
  {Repeat(" ", i) \o t \o Repeat("\n", i) : i \in 0..MaxPad}

QueryTexts ==
  {<<>>, <<"a","b">>, <<"l","i","s","t"," ","a","l","l"," ","m","e","e","t","i","n","g","s">>, <<"H","o","w"," ","m","a","n","y","?">>, <<"F","i","n","d"," ","B","o","b">>,
   <<"F","i","n","d"," ","a","l","l">>, <<"w","e","a","t","h","e","r"," ","i","n"," ","P","a","r","i","s">>}

Queries == UNION {Padded(t) : t \in QueryTexts}

CategoryTexts ==
  {<<"W","E","A","T","H","E","R">>, <<"w","e","a","t","h","e","r">>, <<"D","O","C","_","Q","A">>, <<"D","o","c">>, <<"M","E","E","T","I","N","G","_","S","C","H","E","D","U","L","E">>,
   <<"M","e","e","t","i","n","g">>, <<"D","B","_","Q","U","E","R","Y">>, <<"M","E","E","T","I","N","G","_","W","E","A","T","H","E","R">>, <<"d","o","c"," ","w","e","a","t","h","e","r">>,
   <<"M","E","E","T","I","N","G"," ","D","O","C">>, <<"m","e","e","t","i","n","g","_","d","o","c","_","w","e","a","t","h","e","r">>, <<"W","E","A","T","H","E"," ","R">>, <<"D","O"," ","C">>,
   <<"M","E","E","T","I","N"," ","G">>, <<"U","N","K","N","O","W","N">>, <<>>}

CategoryReplies == CategoryTexts \cup {<<" ","W","E","A","T","H","E","R","\n">>, <<" ">>, <<"\n">>}

Errors == {Exc(t, <<"b","o","o","m">>) : t \in ExceptionTypes}

CityReplies == {<<"P","a","r","i","s">>, <<" ","P","a","r","i","s","\n">>, <<>>}

YesNoReplies == {<<"Y","e","s">>, <<"Y","E","S",","," ","i","t"," ","d","o","e","s">>, <<"N","o">>, <<>>}

AnswerReplies == {<<"3","0"," ","d","a","y","s">>, <<>>}

WebResults == {<<"w","e","b"," ","r","e","s","u","l","t">>, <<>>}

Http(k, t, m, st, d, tp) ==
  [kind |-> k, type |-> t, val |-> m, status |-> st, desc |-> d, temp |-> tp]

HttpOutcomes ==
  {Http("exc", e.type, e.val, 0, <<>>, <<>>) : e \in Errors}
    \cup {Http("ok", "", <<>>, HTTP_OK, <<"c","l","e","a","r"," ","s","k","y">>, <<"2","1",".","5">>),
          Http("ok", "", <<>>, 404, <<>>, <<>>)}

Chunk == <<"p","o","l","i","c","y">>

\* the documents that can be ingested, as their sequence of chunks
Splits == {Repeat(Chunk, n) : n \in 0..MaxChunks}

SqlOutputs ==
  {<<>>, <<"N","o","n","e">>, <<"n","o","n","e">>, <<"N","O","N","E">>, <<"n","o"," ","r","e","s","u","l","t","s">>, <<"N","o"," ","R","e","s","u","l","t","s">>,
   <<" ","n","o","n","e">>, <<" "," ">>, <<"M","e","e","t","i","n","g"," ","A",","," ","M","e","e","t","i","n","g"," ","B">>, <<" ","3","\n">>}

DbErrTexts ==
  {<<>>, <<"b","o","o","m">>, <<"s","y","n","t","a","x"," ","e","r","r","o","r">>, <<"S","Q","L"," ","S","y","n","t","a","x">>, <<"c","o","n","n","e","c","t","i","o","n"," ","r","e","f","u","s","e","d">>,
   <<"C","o","n","n","e","c","t","i","o","n"," ","l","o","s","t",":"," ","s","y","n","t","a","x">>}
    \cup {Repeat("x", n) : n \in (ERR_TRUNC - 1)..(ERR_TRUNC + MaxOver)}
    \cup {Repeat("x", ERR_TRUNC) \o <<"s","y","n","t","a","x">>}

SqlOutcomes ==
  {Ok(o) : o \in SqlOutputs} \cup {NoneResult}
    \cup {Exc(t, m) : t \in ExceptionTypes, m \in DbErrTexts}

----------------------------------------------------------------------------
(* The process: startup, then /chat and /upload requests one at a time     *)

\* module import: the try/except around create_sql_agent, over whatever
\* rows meetings.db already holds
Init ==
  /\ sql_agent_executor \in {None, "executor"}
  /\ vector_store = NoStore
  /\ meetings \in SUBSET MeetingIds
  /\ waiting = <<>>
  /\ state = <<>>
  /\ pc = "idle"
  /\ trace = <<>>
  /\ calls = NoCalls

\* upload_document: ingest the uploaded file
Upload ==
  /\ pc = "idle"
  /\ \E load \in {Ok(sp) : sp \in Splits} \cup Errors :
       vector_store' = ingest_document(vector_store, load)
  /\ UNCHANGED <<sql_agent_executor, meetings, waiting, state, pc, trace,
                 calls>>

\* chat: app_graph.invoke({"query": request.query}) enters the graph
Chat ==
  /\ pc = "idle"
  /\ \E q \in Queries : state' = [query |-> q]
  /\ pc' = ENTRY_POINT
  /\ trace' = <<>>
  /\ calls' = NoCalls
  /\ UNCHANGED <<sql_agent_executor, vector_store, meetings, waiting>>

\* a node run that also drops the vector index
RunNode_drops_index(node, r) ==
  /\ trace' = Append(trace, node)
  /\ calls' = calls \o r.calls
  /\ state' = r.update @@ state
  /\ pc' = next_node(node, state')
  /\ meetings' \in tables_after(meetings, r.calls)
  /\ vector_store' = NoStore
  /\ UNCHANGED <<sql_agent_executor, waiting>>

\* one node of the graph ran with result r: its update is merged into the
\* state and the edge leaving the node is followed, or its exception
\* propagates out of app_graph.invoke
RunNode(node, r) ==
  /\ trace' = Append(trace, node)
  /\ calls' = calls \o r.calls
  /\ IF r.raised
       THEN pc' = "raised" /\ UNCHANGED state
       ELSE /\ state' = r.update @@ state
            /\ pc' = next_node(node, state')
  /\ meetings' \in tables_after(meetings, r.calls)
  /\ UNCHANGED <<sql_agent_executor, vector_store, waiting>>

Router ==
  /\ pc = "router"
  /\ \E llmOut \in {Ok(t) : t \in CategoryReplies} \cup Errors :
       LET r == router_node(state, llmOut) IN RunNode("router", r)

WeatherWorker ==
  /\ pc = "weather_worker"
  /\ \E cityOut \in {Ok(t) : t \in CityReplies} \cup Errors,
        http \in HttpOutcomes :
       LET r == weather_agent(state, cityOut, http)
       IN  RunNode("weather_worker", r)

DocWorker ==
  /\ pc = "doc_worker"
  /\ \E search \in {Ok(similarity_search(vector_store))} \cup Errors,
        checkOut \in {Ok(t) : t \in YesNoReplies} \cup Errors,
        ansOut \in {Ok(t) : t \in AnswerReplies} \cup Errors,
        webOut \in {Ok(t) : t \in WebResults} \cup Errors :
       LET r == doc_qa_agent(state, vector_store, search, checkOut, ansOut,
                             webOut)
       IN  RunNode("doc_worker", r)

SchedulerWorker ==
  /\ pc = "scheduler_worker"
  /\ \E cityOut \in {Ok(t) : t \in CityReplies} \cup Errors,
        http \in HttpOutcomes,
        decisionOut \in {Ok(t) : t \in YesNoReplies} \cup Errors :
       LET r == scheduler_agent(state, cityOut, http, decisionOut)
       IN  RunNode("scheduler_worker", r)

DbWorker ==
  /\ pc = "db_worker"
  /\ \E sqlOut \in SqlOutcomes :
       LET r == db_query_agent(state, sql_agent_executor, sqlOut)
       IN  RunNode("db_worker", r)

\* chat returns {"response": result['response']}, or the exception that
\* left the graph fails the request; the session is gone either way
ChatReturn ==
  /\ pc \in {END, "raised"}
  /\ pc' = "idle"
  /\ state' = <<>>
  /\ trace' = <<>>
  /\ calls' = NoCalls
  /\ UNCHANGED <<sql_agent_executor, vector_store, meetings, waiting>>

Next ==
  \/ Upload
  \/ Chat
  \/ Router
  \/ WeatherWorker
  \/ DocWorker
  \/ SchedulerWorker
  \/ DbWorker
  \/ ChatReturn

Spec == Init /\ [][Next]_vars

----------------------------------------------------------------------------
(* Requests in flight together: the server accepts a chat request while    *)
(* the event loop is busy; the handlers are coroutines that never await,   *)
(* so the accepted requests run one after the other, each to its end       *)

\* largest number of accepted chat requests waiting for the event loop
MaxWaiting == 1

ConcQueries == {<<"a","b">>, <<"l","i","s","t"," ","a","l","l"," ","m","e","e","t","i","n","g","s">>}

\* a chat request arrives and waits for its handler to be run
Accept ==
  /\ Len(waiting) < MaxWaiting
  /\ \E q \in ConcQueries : waiting' = Append(waiting, q)
  /\ UNCHANGED <<sql_agent_executor, vector_store, meetings, state, pc, trace,
                 calls>>

\* chat: the handler of a waiting request starts and enters the graph
ChatStart ==
  /\ pc = "idle"
  /\ \E i \in 1..Len(waiting) :
       /\ state' = [query |-> waiting[i]]
       /\ waiting' = SubSeq(waiting, 1, i - 1)
                       \o SubSeq(waiting, i + 1, Len(waiting))
  /\ pc' = ENTRY_POINT
  /\ trace' = <<>>
  /\ calls' = NoCalls
  /\ UNCHANGED <<sql_agent_executor, vector_store, meetings>>

NextConc ==
  \/ Upload
  \/ Accept
  \/ ChatStart
  \/ Router
  \/ WeatherWorker
  \/ DocWorker
  \/ SchedulerWorker
  \/ DbWorker
  \/ ChatReturn

SpecConc == Init /\ [][NextConc]_vars

----------------------------------------------------------------------------
(* The graph executor runs a started request to its end: every node that   *)
(* is due runs, and chat returns                                           *)

\* the request in progress moves on: the node that is due runs and the
\* edge leaving it is followed, or chat returns after the graph has ended
Advances ==
  \/ /\ pc \in {ENTRY_POINT} \cup Workers
     /\ pc' \in (Workers \cup {END, "raised"}) \ {pc}
  \/ /\ pc \in {END, "raised"}
     /\ pc' = "idle"

FairSpec == Spec /\ WF_pc(Advances)

----------------------------------------------------------------------------
(* What a run has done so far                                              *)

\* the router node has run in the current request
RouterRan == Len(trace) >= 1

\* a worker node has run in the current request
WorkerRan == Len(trace) >= 2

\* the node the conditional edge selected after the router
Selected == IF WorkerRan THEN trace[2] ELSE pc

\* the worker w has handled the current request
Handled(w) == pc = END /\ WorkerRan /\ trace[2] = w

\* the calls of the current request that went to the collaborator `to`
CallsTo(to) == {i \in 1..Len(calls) : calls[i].to = to}

\* C1: a chat request run through the graph ends with a text response,
\* whatever the collaborators do: no exception leaves the router or a
\* worker, and every started request reaches the end of the graph with its
\* response set.
C1_NeverCrash ==
  /\ [](pc # "raised")
  /\ [](pc = END => "response" \in DOMAIN state)
  /\ (pc = ENTRY_POINT) ~> (pc = END)

\* a worker ended normally although one of its collaborators raised
C1_Witness ==
  /\ pc = END
  /\ \E i \in 2..Len(calls) : calls[i].out.kind = "exc"

\* C2: when the classification call raises, the router does not propagate
\* the failure: the category it returns is "DB_QUERY" and the request is
\* dispatched to the database worker.
C2_ClassifierFailureGoesToDb ==
  (RouterRan /\ calls[1].out.kind = "exc") =>
    /\ pc # "raised"
    /\ state.context = CAT_DB_QUERY
    /\ Selected = "db_worker"

\* the database worker has handled a request whose classification raised
C2_Witness ==
  /\ Handled("db_worker")
  /\ calls[1].to = "llm"
  /\ calls[1].out.kind = "exc"

\* the category names none of the three keywords, in any letter case
Unrecognized(category) ==
  /\ ~contains(lower(category), <<"w","e","a","t","h","e","r">>)
  /\ ~contains(lower(category), <<"d","o","c">>)
  /\ ~contains(lower(category), <<"m","e","e","t","i","n","g">>)

\* C3: route_logic is total and deterministic: for every category, the
\* empty one and the unrecognized ones included, the node selected after the
\* router is one of the four workers; it is the one the category alone
\* determines, whatever the query and the rest of the session; an
\* unrecognized category selects the database worker.
C3_RouteTotal ==
  (RouterRan /\ pc # "raised") =>
    /\ Selected \in Workers
    /\ \A q \in Queries :
         Selected = route_logic([query |-> q, context |-> state.context])
    /\ Unrecognized(state.context) => Selected = "db_worker"

\* the empty category was dispatched, to the database worker
C3_Witness ==
  /\ Handled("db_worker")
  /\ state.context = <<>>

\* C4: dispatch is an ordered, case-insensitive chain of substring tests:
\* WEATHER wins over DOC and MEETING, DOC wins over MEETING, and a category
\* with none of them selects the database worker.
C4_PriorityChain ==
  (RouterRan /\ pc # "raised") =>
    LET category == lower(state.context)
        weather == contains(category, <<"w","e","a","t","h","e","r">>)
        doc == contains(category, <<"d","o","c">>)
        meeting == contains(category, <<"m","e","e","t","i","n","g">>)
    IN  /\ weather => Selected = "weather_worker"
        /\ (~weather /\ doc) => Selected = "doc_worker"
        /\ (~weather /\ ~doc /\ meeting) => Selected = "scheduler_worker"
        /\ (~weather /\ ~doc /\ ~meeting) => Selected = "db_worker"

\* the category "MEETING_WEATHER" was handled by the weather worker
C4_Witness ==
  /\ Handled("weather_worker")
  /\ state.context = <<"M","E","E","T","I","N","G","_","W","E","A","T","H","E","R">>

\* C5: in every run the router executes first and once, then exactly one
\* worker executes once, then the run ends: no worker before the router, no
\* second worker, no node revisited.
C5_RouterThenOneWorker ==
  /\ Len(trace) <= 2
  /\ RouterRan => trace[1] = "router"
  /\ WorkerRan => (trace[2] \in Workers /\ pc = END)
  /\ pc = ENTRY_POINT => trace = <<>>
  /\ pc \in Workers => trace = <<"router">>
  /\ pc = END => WorkerRan

\* a run that has ended after the router and the scheduler worker
C5_Witness == Handled("scheduler_worker") /\ trace[1] = "router"

\* C6: once the structured-query collaborator has failed to initialize, its
\* handle stays absent for the lifetime of the process, and every request
\* the database worker handles, whatever its query, gets the "Database
\* service unavailable" message without the collaborator being invoked.
C6_DegradedForLife ==
  /\ [][sql_agent_executor = None => sql_agent_executor' = None]_vars
  /\ []((sql_agent_executor = None /\ Handled("db_worker")) =>
          /\ state.response = MSG_DB_UNAVAILABLE
          /\ CallsTo("sql") = {})

\* with the handle absent, the database worker has handled a query that
\* would pass the validation
C6_Witness ==
  /\ sql_agent_executor = None
  /\ Handled("db_worker")
  /\ state.query = <<"l","i","s","t"," ","a","l","l"," ","m","e","e","t","i","n","g","s">>

\* the session's query, trimmed, has fewer than 3 characters
ShortQuery == Len(strip(state.query)) < 3

\* C7 as stated: for every query whose trimmed length is less than 3, the
\* database worker returns the validation message and the collaborator is
\* never invoked.
C7_Original ==
  (Handled("db_worker") /\ ShortQuery) =>
    /\ state.response = MSG_DB_INVALID
    /\ CallsTo("sql") = {}

\* C7 as amended: for every query whose trimmed length is less than 3, the
\* database worker never invokes the collaborator, and it returns the
\* validation message when the collaborator initialized at startup; when it
\* did not, the unavailable message of the precondition check comes first.
C7_ShortQueryRejected ==
  (Handled("db_worker") /\ ShortQuery) =>
    /\ CallsTo("sql") = {}
    /\ state.response = IF sql_agent_executor = None
                          THEN MSG_DB_UNAVAILABLE
                          ELSE MSG_DB_INVALID

\* with the collaborator available, the query " ab\n" got the validation
\* message
C7_Witness ==
  /\ sql_agent_executor # None
  /\ Handled("db_worker")
  /\ state.query = <<" ","a","b","\n">>
  /\ state.response = MSG_DB_INVALID

\* the structured-query invocations of the current request that timed out
TimedOut == {i \in CallsTo("sql") : isinstance(calls[i].out, "TimeoutError")}

\* C8: when the structured-query invocation times out, the database worker
\* ends normally with the "Database query timed out" message, whatever the
\* text of the failure, and the collaborator was invoked once only; no
\* request invokes it more than once.
C8_TimeoutIsNormalResponse ==
  /\ Cardinality(CallsTo("sql")) <= 1
  /\ TimedOut # {} =>
       /\ pc = END
       /\ state.response = MSG_DB_TIMEOUT

\* the invocation timed out with a text that names a connection and a
\* syntax failure, and the request ended
C8_Witness ==
  /\ Handled("db_worker")
  /\ \E i \in TimedOut : calls[i].out.val = <<"C","o","n","n","e","c","t","i","o","n"," ","l","o","s","t",":"," ","s","y","n","t","a","x">>

\* p is the beginning of s
StartsWith(s, p) == Len(p) <= Len(s) /\ SubSeq(s, 1, Len(p)) = p

\* the response the ordered checks of the failure taxonomy give for the
\* failure e: malformed value, then "syntax", then "connection", then the
\* generic message with the first 100 characters of the text
TaxonomyHolds(e, response) ==
  LET text == lower(e.val)
      malformed == e.type = "ValueError"
      syntax == contains(text, <<"s","y","n","t","a","x">>)
      connection == contains(text, <<"c","o","n","n","e","c","t","i","o","n">>)
      generic == <<"Q","u","e","r","y"," ","p","r","o","c","e","s","s","i","n","g"," ","e","r","r","o","r","."," ","P","l","e","a","s","e"," ","r","e","p","h","r","a","s","e",":"," ">>
      rest == SubSeq(response, Len(generic) + 1, Len(response))
  IN  /\ malformed => StartsWith(response, <<"I","n","v","a","l","i","d"," ","q","u","e","r","y"," ","f","o","r","m","a","t",":"," ">> \o e.val)
      /\ (~malformed /\ syntax) => response = MSG_DB_SYNTAX
      /\ (~malformed /\ ~syntax /\ connection) => response = MSG_DB_CONNECTION
      /\ (~malformed /\ ~syntax /\ ~connection) =>
           /\ StartsWith(response, generic)
           /\ StartsWith(e.val, rest)
           /\ Len(rest) = IF Len(e.val) < 100 THEN Len(e.val) ELSE 100

\* the structured-query invocations of the current request that raised
Raised == {i \in CallsTo("sql") : calls[i].out.kind = "exc"}

\* C9 as stated: when the database worker's handling raises, the response is
\* chosen by the ordered checks, first match wins.
C9_Original ==
  Handled("db_worker") =>
    \A i \in Raised : TaxonomyHolds(calls[i].out, state.response)

\* C9 as amended: when the database worker's handling raises anything but a
\* timeout (which is answered first, by the timed-out message), the response
\* is chosen by the ordered checks, first match wins.
C9_ErrorTaxonomy ==
  Handled("db_worker") =>
    \A i \in Raised \ TimedOut : TaxonomyHolds(calls[i].out, state.response)

\* a failure whose text names both a connection and a syntax failure got
\* the syntax message
C9_Witness ==
  /\ Handled("db_worker")
  /\ \E i \in Raised :
       /\ calls[i].out.type = "Exception"
       /\ calls[i].out.val = <<"C","o","n","n","e","c","t","i","o","n"," ","l","o","s","t",":"," ","s","y","n","t","a","x">>
  /\ state.response = MSG_DB_SYNTAX

\* the outputs the structured-query invocations of the current request
\* returned
Outputs == {calls[i].out.val : i \in {j \in CallsTo("sql") : calls[j].out.kind = "ok"}}

\* the output is empty, or is "none" or "no results" in some letter case
Placeholder(output) ==
  \/ output = <<>>
  \/ lower(output) = <<"n","o","n","e">>
  \/ lower(output) = <<"n","o"," ","r","e","s","u","l","t","s">>

\* C10: whenever the collaborator's output is empty or is "none" or "no
\* results" in any letter case, the database worker's response is "No
\* meetings found matching your query.", never the raw output.
C10_EmptyOutputNormalised ==
  Handled("db_worker") =>
    \A output \in Outputs :
      Placeholder(output) => state.response = MSG_DB_NO_MEETINGS

\* the output "None" was answered by the no-meetings message
C10_Witness ==
  /\ Handled("db_worker")
  /\ <<"N","o","n","e">> \in Outputs
  /\ state.response = MSG_DB_NO_MEETINGS

\* C11 as stated: the category returned by the router is never null and
\* never the empty string, for every classifier outcome.
C11_Original ==
  (RouterRan /\ pc # "raised") =>
    /\ "context" \in DOMAIN state
    /\ state.context # <<>>

\* the classification returned text that is empty or all whitespace
BlankReply ==
  /\ calls[1].out.kind = "ok"
  /\ \A i \in 1..Len(calls[1].out.val) : calls[1].out.val[i] \in Whitespace

\* C11 as amended: the category returned by the router is never null; it is
\* the empty string exactly when the classifier returned empty or
\* whitespace-only text (a raised failure gives "DB_QUERY"), and the empty
\* category is dispatched to the database worker.
C11_CategoryNeverNull ==
  (RouterRan /\ pc # "raised") =>
    /\ "context" \in DOMAIN state
    /\ (state.context = <<>>) <=> BlankReply
    /\ state.context = <<>> => Selected = "db_worker"

\* a whitespace-only classification gave the empty category, handled by the
\* database worker
C11_Witness ==
  /\ Handled("db_worker")
  /\ calls[1].out = Ok(<<" ">>)
  /\ state.context = <<>>

\* C12 as stated: the response field starts empty and is set exactly once,
\* by the single worker that handles the session; no other step, the router
\* included, writes it.
C12_Original ==
  /\ (pc = ENTRY_POINT \/ pc \in Workers) => "response" \notin DOMAIN state
  /\ pc = END => ("response" \in DOMAIN state /\ Len(trace) = 2)

\* C12 as amended: the response field is absent when the session is created
\* and is initialised to the empty text by the router; after that it is set
\* exactly once, by the single worker that handles the session, and by no
\* other step.
C12_ResponseSetOnce ==
  /\ [](pc = ENTRY_POINT => "response" \notin DOMAIN state)
  /\ [](pc \in Workers => state.response = <<>>)
  /\ [](pc = END => (Len(trace) = 2 /\ trace[2] \in Workers))
  /\ [][("response" \in DOMAIN state /\ "response" \in DOMAIN state'
           /\ state'.response # state.response)
          => (pc \in Workers /\ pc' = END)]_vars

\* the worker has replaced the router's empty response by its own text
C12_Witness ==
  /\ pc = END
  /\ trace[2] \in Workers
  /\ state.response # <<>>

\* a chat request is in flight: accepted and waiting, or being handled
InFlight == waiting # <<>> \/ pc # "idle"

\* the step leaves the chat requests that wait as they are, but for an
\* arrival
WaitingKept ==
  waiting' = waiting \/ \E q \in ConcQueries : waiting' = Append(waiting, q)

\* C13 as stated: chat requests in flight together are independent: each
\* has its own session, and no step of another request or of a document
\* upload changes state that a chat request in flight reads.
C13_Original ==
  [][InFlight =>
       /\ vector_store' = vector_store
       /\ sql_agent_executor' = sql_agent_executor
       /\ pc # "idle" => WaitingKept]_vars

\* C13 as amended: chat requests in flight together are independent of one
\* another: each has its own session, and no step of a chat request changes
\* state that another chat request reads (the structured-query handle and
\* the vector index are never written by a chat step, and a waiting request
\* is left as it is). A document upload does replace the vector index that
\* the document worker of a request in flight reads later, and touches
\* nothing else of it.
C13_ChatsIndependent ==
  [][/\ sql_agent_executor' = sql_agent_executor
     /\ pc # "idle" => (vector_store' = vector_store /\ WaitingKept)
     /\ vector_store' # vector_store => UNCHANGED <<state, waiting, pc>>]_vars

\* the document worker is about to read an uploaded index while another
\* chat request waits
C13_Witness ==
  /\ pc = "doc_worker"
  /\ waiting # <<>>
  /\ vector_store.built

\* the i-th call of the current request that went to the collaborator `to`
NthCallTo(to, n) ==
  calls[CHOOSE i \in CallsTo(to) :
          Cardinality({j \in CallsTo(to) : j <= i}) = n]

\* the similarity search of the current request gave no passages: no index
\* was built, or the search returned nothing
NoPassages ==
  \/ ~vector_store.built
  \/ \E i \in CallsTo("vector") : calls[i].out = Ok(<<>>)

\* C14: when the document worker's similarity search returns an empty or
\* absent result, the worker goes directly to the web search: the context
\* check and the answer call are not made, so the request makes one
\* classifier call only, the router's.
C14_NoPassagesGoesToWeb ==
  (Handled("doc_worker") /\ NoPassages) =>
    /\ Cardinality(CallsTo("llm")) = 1
    /\ calls[1].to = "llm"
    /\ Cardinality(CallsTo("web")) = 1
    /\ calls[Len(calls)].to = "web"

\* with an index built, the search returned nothing and the web result
\* became the response
C14_Witness ==
  /\ Handled("doc_worker")
  /\ vector_store.built
  /\ calls[2] = Call("vector", Ok(<<>>))
  /\ calls[3] = Call("web", Ok(<<"w","e","b"," ","r","e","s","u","l","t">>))
  /\ state.response = <<"w","e","b"," ","r","e","s","u","l","t">>

\* passages were retrieved for the current request
Passages ==
  \E i \in CallsTo("vector") :
    calls[i].out.kind = "ok" /\ calls[i].out.val # <<>>

\* the context check of the current request was answered with a "yes"
SaidYes ==
  /\ Cardinality(CallsTo("llm")) >= 2
  /\ NthCallTo("llm", 2).out.kind = "ok"
  /\ contains(lower(NthCallTo("llm", 2).out.val), <<"y","e","s">>)

\* none of the calls of the current request raised
NoFailure == \A i \in 1..Len(calls) : calls[i].out.kind # "exc"

\* C15: in the document worker the answer call is made, and its answer
\* returned, if and only if passages were retrieved and the context check's
\* reply contains "yes" in any letter case; in every other case without a
\* failure the web search is invoked exactly once and its raw result is the
\* response; the answer call and the web search never both occur.
C15_AnswerIffYes ==
  Handled("doc_worker") =>
    LET answered == Cardinality(CallsTo("llm")) = 3
    IN  /\ answered <=> (Passages /\ SaidYes)
        /\ (answered /\ NoFailure) =>
             state.response = NthCallTo("llm", 3).out.val
        /\ (~answered /\ NoFailure) =>
             /\ Cardinality(CallsTo("web")) = 1
             /\ state.response = calls[Len(calls)].out.val
             /\ calls[Len(calls)].to = "web"
        /\ ~(answered /\ CallsTo("web") # {})

\* the verbose reply "YES, it does" led to the answer call, whose answer
\* is the response
C15_Witness ==
  /\ Handled("doc_worker")
  /\ Passages
  /\ calls[3] = Call("llm", Ok(<<"Y","E","S",","," ","i","t"," ","d","o","e","s">>))
  /\ calls[4] = Call("llm", Ok(<<"3","0"," ","d","a","y","s">>))
  /\ state.response = <<"3","0"," ","d","a","y","s">>

\* C16: every request is one sequential chain of at most 4 calls to the
\* external collaborators, the router's classification call included,
\* whichever worker is selected and whichever branch it takes.
C16_AtMostFourCalls ==
  /\ Len(calls) <= 4
  /\ \A i \in 1..Len(calls) :
       calls[i].to \in {"llm", "weather", "vector", "web", "sql"}

\* a request that ended after four calls
C16_Witness ==
  /\ pc = END
  /\ Len(calls) = 4

\* the query of the current request contains one of the words, in any
\* letter case
Mentions(words) == \E w \in words : contains(lower(state.query), w)

ListWords == {<<"l","i","s","t">>, <<"s","h","o","w">>, <<"a","l","l">>, <<"g","e","t">>}

CountWords == {<<"c","o","u","n","t">>, <<"h","o","w"," ","m","a","n","y">>}

SearchWords == {<<"s","e","a","r","c","h">>, <<"f","i","n","d">>}

\* C17: for a collaborator output that is neither empty nor a placeholder,
\* the database worker's response is the trimmed output under a heading
\* chosen by the keywords the original query contains, in any letter case:
\* list/show/all/get give "Meetings found:", else count/how many give
\* "Meeting count:", else search/find give "Search results:" (heading,
\* newline, output); a query with none of these words gets the trimmed
\* output alone. "list all meetings" with the output "Meeting A, Meeting B"
\* gives "Meetings found:\nMeeting A, Meeting B".
C17_PrefixByKeyword ==
  \A output \in Outputs :
    (Handled("db_worker") /\ ~Placeholder(output)) =>
      /\ Mentions(ListWords) =>
           state.response = <<"M","e","e","t","i","n","g","s"," ","f","o","u","n","d",":","\n">> \o strip(output)
      /\ (Mentions(CountWords) /\ ~Mentions(ListWords)) =>
           state.response = <<"M","e","e","t","i","n","g"," ","c","o","u","n","t",":","\n">> \o strip(output)
      /\ (Mentions(SearchWords) /\ ~Mentions(ListWords \cup CountWords)) =>
           state.response = <<"S","e","a","r","c","h"," ","r","e","s","u","l","t","s",":","\n">> \o strip(output)
      /\ ~Mentions(ListWords \cup CountWords \cup SearchWords) =>
           state.response = strip(output)
      /\ (strip(state.query) = <<"l","i","s","t"," ","a","l","l"," ","m","e","e","t","i","n","g","s">>
            /\ output = <<"M","e","e","t","i","n","g"," ","A",","," ","M","e","e","t","i","n","g"," ","B">>) =>
           state.response = <<"M","e","e","t","i","n","g","s"," ","f","o","u","n","d",":","\n","M","e","e","t","i","n","g"," ","A",","," ","M","e","e","t","i","n","g"," ","B">>

\* the query "How many?", in capitals and padded, got the count heading
\* over the trimmed output " 3\n"
C17_Witness ==
  /\ Handled("db_worker")
  /\ state.query = <<" ","H","o","w"," ","m","a","n","y","?","\n">>
  /\ Outputs = {<<" ","3","\n">>}
  /\ state.response = <<"M","e","e","t","i","n","g"," ","c","o","u","n","t",":","\n","3">>

\* the calls the worker of the current request made, after the router's
WorkerCalls == SubSeq(calls, 2, Len(calls))

\* C18: the scheduler worker extracts the city, looks up the weather of
\* that city and asks the yes/no question, in this order; a failure at a
\* step gives a "Scheduling error" response and the later steps are not
\* performed; without a failure a decision containing "yes" in any letter
\* case gives the affirmative message and any other reply the negative
\* one, both embedding the raw text of the weather lookup.
C18_SchedulerSteps ==
  Handled("scheduler_worker") =>
    LET w == WorkerCalls
        n == Len(w)
    IN  /\ n \in 1..3
        /\ w[1].to = "llm"
        /\ n >= 2 => w[2].to = "weather"
        /\ n >= 3 => w[3].to = "llm"
        /\ \A i \in 1..(n - 1) : w[i].out.kind # "exc"
        /\ n < 3 => w[n].out.kind = "exc"
        /\ (n >= 2 /\ w[2].out.kind = "ok" /\ w[2].out.val # MSG_NO_WEATHER) =>
             StartsWith(w[2].out.val,
                        <<"W","e","a","t","h","e","r"," ","i","n"," ">> \o strip(w[1].out.val) \o <<":"," ">>)
        /\ w[n].out.kind = "exc" =>
             state.response = <<"S","c","h","e","d","u","l","i","n","g"," ","e","r","r","o","r",":"," ">> \o w[n].out.val
        /\ w[n].out.kind # "exc" =>
             IF contains(lower(w[3].out.val), <<"y","e","s">>)
               THEN state.response = <<"G","o","o","d"," ","w","e","a","t","h","e","r"," ","(">> \o w[2].out.val
                      \o <<")","."," ","M","e","e","t","i","n","g"," ","c","a","n"," ","b","e"," ","s","c","h","e","d","u","l","e","d","!">>
               ELSE state.response = <<"B","a","d"," ","w","e","a","t","h","e","r"," ","(">> \o w[2].out.val
                      \o <<")","."," ","M","e","e","t","i","n","g"," ","n","o","t"," ","r","e","c","o","m","m","e","n","d","e","d"," ","f","o","r"," ","o","u","t","d","o","o","r","s",".">>

\* the three steps ran and the verbose decision "YES, it does" gave the
\* affirmative message around the weather text
C18_Witness ==
  /\ Handled("scheduler_worker")
  /\ Len(WorkerCalls) = 3
  /\ WorkerCalls[3].out = Ok(<<"Y","E","S",","," ","i","t"," ","d","o","e","s">>)
  /\ StartsWith(state.response, <<"G","o","o","d"," ","w","e","a","t","h","e","r"," ","(","W","e","a","t","h","e","r"," ","i","n"," ","P","a","r","i","s",":"," ","c","l","e","a","r"," ","s","k","y">>)

\* C19: the scheduler worker only advises: its step leaves the stored
\* meeting records as they were, whatever the decision, and a request it
\* handled has invoked neither the structured-query collaborator nor the
\* creation of a meeting.
C19_SchedulerOnlyAdvises ==
  /\ [][pc = "scheduler_worker" => meetings' = meetings]_vars
  /\ [](Handled("scheduler_worker") =>
          CallsTo("sql") \cup CallsTo("create_meeting") = {})

\* the scheduler recommended the meeting and the table is still empty
C19_Witness ==
  /\ Handled("scheduler_worker")
  /\ StartsWith(state.response, <<"G","o","o","d"," ","w","e","a","t","h","e","r"," ","(">>)
  /\ meetings = {}

\* C20: the session's query is immutable after creation: it is the text
\* received from the caller, and no router or worker step changes it, so
\* it is the same at the end of the request.
C20_QueryImmutable ==
  [][/\ (pc = "idle" /\ pc' # "idle") =>
          (state'.query \in Queries /\ DOMAIN state' = {"query"})
     /\ (pc # "idle" /\ pc' # "idle") =>
          ("query" \in DOMAIN state' /\ state'.query = state.query)]_vars

\* the database worker answered a padded query and the session still holds
\* it untrimmed
C20_Witness ==
  /\ Handled("db_worker")
  /\ state.query = <<" ","l","i","s","t"," ","a","l","l"," ","m","e","e","t","i","n","g","s","\n">>
  /\ CallsTo("sql") # {}

====
